---- MODULE Spec2Model ----
(***************************************************************************)
(* Model of adapy/ros_control.py: the one-shot Future, its subclass        *)
(* TrajectoryFuture, the TrajectoryMode queue of running trajectories, and *)
(* the threads that call their methods.                                    *)
(*                                                                         *)
(* One future is modelled.  Its Python attributes are the variables below; *)
(* `attrs` is the set of attribute names present in the object's __dict__  *)
(* (reading a name that is absent raises AttributeError).  Each thread is  *)
(* either idle or inside one method call; a method body is cut at every    *)
(* point where another thread can observe or change what it reads, and the *)
(* regions executed entirely under self.lock on data that is only touched  *)
(* under self.lock are single steps.                                       *)
(***************************************************************************)
EXTENDS Integers, Sequences, FiniteSets, TLC

VARIABLES
    kind,           \* class of the object: "Future" or "TrajectoryFuture"
    attrs,          \* names present in the object's __dict__
    lock,           \* self.lock: 0 when free, else the thread that holds it
    is_done,        \* self._is_done
    is_cancelled,   \* self._is_cancelled
    result_,        \* self._result
    exception_,     \* self._exception
    callbacks,      \* self._callbacks
    notified,       \* waiters of self._condition that notify_all has released
    handle,         \* self._handle
    prev_state,     \* self._prev_state
    traj_executed,  \* self._traj_executed: [stamp, points]
    pc,             \* per thread: position inside the current call
    call,           \* per thread: the current (or last) call and its arguments
    snap,           \* per thread: `callbacks` local of _set_done still to run
    last,           \* history: the call that ended in the latest step, and how
    invoked,        \* history: callback invocations, in order
    completed,      \* history: the completion calls that passed _set_done
    delivered,      \* history: feedback samples handed to on_feedback
    added,          \* history: callables add_done_callback has accepted
    observed,       \* history: state delivered to the latest on_transition
    timed_out,      \* history: a result()/exception() call raised TimeoutError
    nOps,           \* history: number of calls started
    queue,          \* TrajectoryMode: self._queue
    mode_lock       \* TrajectoryMode: self._lock, 0 when free

vars == <<kind, attrs, lock, is_done, is_cancelled, result_, exception_,
          callbacks, notified, handle, prev_state, traj_executed,
          pc, call, snap, last, invoked, completed, delivered, added,
          observed, timed_out, nOps, queue, mode_lock>>

objVars == <<kind, attrs, lock, is_done, is_cancelled, result_, exception_,
             callbacks, notified, handle, prev_state, traj_executed>>

trajVars == <<handle, prev_state, traj_executed>>

histVars == <<invoked, completed, delivered, added, observed, timed_out>>

modeVars == <<queue, mode_lock>>

(***************************************************************************)
(* Bounds                                                                  *)
(***************************************************************************)
NumThreads == 2
MaxOps == 3
MaxStamp == 2

Threads == 1..NumThreads

(***************************************************************************)
(* Input domains                                                           *)
(***************************************************************************)
Fns == {"cb1", "cb2"}
Results == {"r1", "r2"}
Exceptions == {"e1"}
Timeouts == {"None", "Finite"}
CommStates == {"PENDING", "ACTIVE", "DONE"}
TerminalStates == {"SUCCEEDED", "PREEMPTED", "RECALLED", "ABORTED"}
ErrorCodes == {"SUCCESSFUL", "INVALID_GOAL"}
Msgs == [stamp : 1..MaxStamp, tfs : 0..1]
RaisingFns == {"cb2"}

NoCall == [op |-> "-", a |-> "-", b |-> "-", c |-> "-",
           sawDone |-> FALSE, dup |-> FALSE, again |-> FALSE, ran |-> 0]
NoLast == [t |-> 0, call |-> NoCall, kind |-> "none", val |-> "-"]
Return(v) == [kind |-> "return", val |-> v]
Raise(e) == [kind |-> "raise", val |-> e]
BoolStr(b) == IF b THEN "True" ELSE "False"

(***************************************************************************)
(* Construction                                                            *)
(***************************************************************************)
FutureAttrs == {"lock", "_is_done", "_is_error", "_is_cancelled", "_handle",
                "_result", "_condition", "_callbacks"}

TrajectoryFutureAttrs == {"_prev_state", "_traj_requested", "_traj_executed"}

EmptyTrajectory == [stamp |-> 0, points |-> <<>>]

ThreadInit ==
    /\ pc = [t \in Threads |-> "idle"]
    /\ call = [t \in Threads |-> NoCall]
    /\ snap = [t \in Threads |-> <<>>]
    /\ last = NoLast
    /\ invoked = <<>>
    /\ completed = <<>>
    /\ delivered = <<>>
    /\ added = <<>>
    /\ observed = "-"
    /\ timed_out = FALSE
    /\ nOps = 0

\* Future.__init__
FutureInit ==
    /\ kind = "Future"
    /\ attrs = FutureAttrs
    /\ lock = 0
    /\ is_done = FALSE
    /\ is_cancelled = FALSE
    /\ result_ = "None"
    /\ exception_ = "None"
    /\ callbacks = <<>>
    /\ notified = {}
    /\ handle = "None"
    /\ prev_state = "-"
    /\ traj_executed = EmptyTrajectory

\* TrajectoryFuture.__init__: Future.__init__ is not called
TrajectoryFutureInit ==
    /\ kind = "TrajectoryFuture"
    /\ attrs = TrajectoryFutureAttrs
    /\ lock = 0
    /\ is_done = FALSE
    /\ is_cancelled = FALSE
    /\ result_ = "None"
    /\ exception_ = "None"
    /\ callbacks = <<>>
    /\ notified = {}
    /\ handle = "None"
    /\ prev_state = "PENDING"
    /\ traj_executed = EmptyTrajectory

\* TrajectoryMode.__init__
ModeInit ==
    /\ queue = <<>>
    /\ mode_lock = 0

Init == (FutureInit \/ TrajectoryFutureInit) /\ ThreadInit /\ ModeInit

(***************************************************************************)
(* Helpers shared by the actions                                           *)
(***************************************************************************)
HasAttr(n) == n \in attrs

Idle(t) == pc[t] = "idle" /\ nOps < MaxOps

\* the elements of a sequence
Range(seq) == {seq[i] : i \in 1..Len(seq)}

\* the record of a call that starts now: its name and arguments, whether
\* the object was done when it started, whether it is an on_transition that
\* repeats self._prev_state, whether it repeats an earlier call (an
\* on_transition delivering the state the previous on_transition delivered,
\* after that one has ended; an add_done_callback of a callable that was
\* accepted before), and how often it has called its own callback
CallRec(o, x, y, z) ==
    [op |-> o, a |-> x, b |-> y, c |-> z,
     sawDone |-> HasAttr("_is_done") /\ is_done,
     dup |-> o = "on_transition" /\ x = prev_state,
     again |-> \/ /\ o = "on_transition"
                  /\ x = observed
                  /\ \A u \in Threads : call[u].op # "on_transition"
               \/ /\ o = "add_done_callback"
                  /\ x \in Range(added),
     ran |-> 0]

\* a call that starts and ends in one step with outcome r
Atomic(t, c, r) ==
    /\ nOps' = nOps + 1
    /\ last' = [t |-> t, call |-> c, kind |-> r.kind, val |-> r.val]
    /\ UNCHANGED <<pc, call, snap>>

\* a call that starts and stops at position label
Start(t, c, label) ==
    /\ nOps' = nOps + 1
    /\ call' = [call EXCEPT ![t] = c]
    /\ pc' = [pc EXCEPT ![t] = label]
    /\ last' = NoLast
    /\ UNCHANGED snap

\* the running call of thread t moves to position label
Goto(t, label) ==
    /\ pc' = [pc EXCEPT ![t] = label]
    /\ last' = NoLast
    /\ UNCHANGED <<call, nOps>>

\* the running call of thread t, recorded as c, ends with outcome r
FinishWith(t, c, r) ==
    /\ pc' = [pc EXCEPT ![t] = "idle"]
    /\ call' = [call EXCEPT ![t] = NoCall]
    /\ last' = [t |-> t, call |-> c, kind |-> r.kind, val |-> r.val]
    /\ UNCHANGED nOps

Finish(t, r) == FinishWith(t, call[t], r)

(***************************************************************************)
(* Future.done, Future.cancelled, Future.cancel                            *)
(***************************************************************************)
\* done() that does not count a cancelled call as done
DoneValue_NotCancelled ==
    IF ~HasAttr("lock") THEN Raise("AttributeError")
    ELSE Return(BoolStr(is_done /\ ~is_cancelled))

\* what done() gives in the current state
DoneValue ==
    IF ~HasAttr("lock") THEN Raise("AttributeError")
    ELSE Return(BoolStr(is_done))

\* what cancelled() gives in the current state
CancelledValue ==
    IF ~HasAttr("lock") THEN Raise("AttributeError")
    ELSE Return(BoolStr(is_done /\ is_cancelled))

done(t) ==
    /\ Idle(t)
    /\ HasAttr("lock") => lock = 0
    /\ Atomic(t, CallRec("done", "-", "-", "-"), DoneValue)
    /\ UNCHANGED <<modeVars, objVars, histVars>>

cancelled(t) ==
    /\ Idle(t)
    /\ HasAttr("lock") => lock = 0
    /\ Atomic(t, CallRec("cancelled", "-", "-", "-"), CancelledValue)
    /\ UNCHANGED <<modeVars, objVars, histVars>>

cancel(t) ==
    /\ Idle(t)
    /\ Atomic(t, CallRec("cancel", "-", "-", "-"), Raise("NotImplementedError"))
    /\ UNCHANGED <<modeVars, objVars, histVars>>

(***************************************************************************)
(* Future.result, Future.exception                                         *)
(***************************************************************************)
\* threads blocked in self._condition.wait
Waiters == {t \in Threads : pc[t] = "wait"}

\* `with self.lock: self._condition.wait(timeout)`: the lock is taken and
\* released again by wait, which blocks the caller whatever self._is_done is
WaitCall(t, o, timeout) ==
    /\ Idle(t)
    /\ IF ~HasAttr("lock")
       THEN /\ Atomic(t, CallRec(o, timeout, "-", "-"), Raise("AttributeError"))
            /\ UNCHANGED notified
       ELSE /\ lock = 0
            /\ Start(t, CallRec(o, timeout, "-", "-"), "wait")
            /\ notified' = notified \ {t}
    /\ UNCHANGED <<modeVars, kind, attrs, lock, is_done, is_cancelled, result_,
                   exception_, callbacks, trajVars, histVars>>

result(t) == \E timeout \in Timeouts : WaitCall(t, "result", timeout)

exception(t) == \E timeout \in Timeouts : WaitCall(t, "exception", timeout)

\* result()/exception() without the `if not self._is_done` test after the wait
Wake_NoDoneTest(t) ==
    /\ pc[t] = "wait"
    /\ lock = 0
    /\ t \in notified \/ call[t].a = "Finite"
    /\ notified' = notified \ {t}
    /\ lock' = t
    /\ Goto(t, "chk_cancelled")
    /\ UNCHANGED <<modeVars, kind, attrs, is_done, is_cancelled, result_, exception_,
                   callbacks, trajVars, snap, histVars>>

\* wait returns (notified, or the timeout ran out) with the lock re-acquired;
\* `if not self._is_done: raise TimeoutError()`
Wake(t) ==
    /\ pc[t] = "wait"
    /\ lock = 0
    /\ t \in notified \/ call[t].a = "Finite"
    /\ notified' = notified \ {t}
    /\ IF ~is_done
       THEN /\ Finish(t, Raise("TimeoutError"))
            /\ timed_out' = TRUE
            /\ UNCHANGED lock
       ELSE /\ lock' = t
            /\ Goto(t, "chk_cancelled")
            /\ UNCHANGED timed_out
    /\ UNCHANGED <<modeVars, kind, attrs, is_done, is_cancelled, result_,
                   exception_, callbacks, trajVars, snap,
                   invoked, completed, delivered, added, observed>>

\* `elif self._is_cancelled: raise CancelledError()`
ChkCancelled(t) ==
    /\ pc[t] = "chk_cancelled"
    /\ IF is_cancelled
       THEN /\ Finish(t, Raise("CancelledError"))
            /\ lock' = 0
       ELSE /\ Goto(t, "chk_exception")
            /\ UNCHANGED lock
    /\ UNCHANGED <<modeVars, kind, attrs, is_done, is_cancelled, result_, exception_,
                   callbacks, notified, trajVars, snap, histVars>>

\* `elif self._exception is not None:` and, in exception(), `else: return None`
ChkException(t) ==
    /\ pc[t] = "chk_exception"
    /\ IF ~HasAttr("_exception")
       THEN /\ Finish(t, Raise("AttributeError"))
            /\ lock' = 0
       ELSE IF exception_ # "None"
       THEN /\ Goto(t, "get_exception")
            /\ UNCHANGED lock
       ELSE IF call[t].op = "result"
       THEN /\ Goto(t, "get_result")
            /\ UNCHANGED lock
       ELSE /\ Finish(t, Return("None"))
            /\ lock' = 0
    /\ UNCHANGED <<modeVars, kind, attrs, is_done, is_cancelled, result_, exception_,
                   callbacks, notified, trajVars, snap, histVars>>

\* the value the call ends with: `raise self._exception` in result(),
\* `return self._exception` in exception(), `else: return self._result`.
\* Line 81 is taken only when self._exception exists and is None, which no
\* set_exception(e) with an exception object produces.
GetOutcome(t) ==
    /\ pc[t] \in {"get_exception", "get_result"}
    /\ IF pc[t] = "get_result"
       THEN Finish(t, Return(result_))
       ELSE IF call[t].op = "result"
       THEN Finish(t, Raise(exception_))
       ELSE Finish(t, Return(exception_))
    /\ lock' = 0
    /\ UNCHANGED <<modeVars, kind, attrs, is_done, is_cancelled, result_, exception_,
                   callbacks, notified, trajVars, snap, histVars>>

\* what result() (o = "result") or exception() (o = "exception") gives once
\* its wait is over, when no other thread writes between its tests
Outcome(o) ==
    IF ~HasAttr("lock") THEN Raise("AttributeError")
    ELSE IF ~is_done THEN Raise("TimeoutError")
    ELSE IF is_cancelled THEN Raise("CancelledError")
    ELSE IF ~HasAttr("_exception") THEN Raise("AttributeError")
    ELSE IF exception_ # "None"
         THEN IF o = "result" THEN Raise(exception_) ELSE Return(exception_)
    ELSE IF o = "result" THEN Return(result_) ELSE Return("None")

(***************************************************************************)
(* Done-callbacks                                                          *)
(***************************************************************************)
\* what calling fn(self) does: the invocation is recorded; a callback of
\* RaisingFns raises an Exception
Raises(fn) == fn \in RaisingFns

Invoke(fn) == invoked' = Append(invoked, fn)

Registered(fn) == \E i \in 1..Len(callbacks) : callbacks[i] = fn

\* add_done_callback that calls fn inside the `with self.lock:` block
add_done_callback_CallUnderLock(t) ==
    \E fn \in Fns :
        /\ Idle(t)
        /\ HasAttr("lock")
        /\ lock = 0
        /\ ~is_done
        /\ lock' = t
        /\ added' = Append(added, fn)
        /\ Start(t, CallRec("add_done_callback", fn, "-", "-"), "do_call")
        /\ UNCHANGED <<modeVars, kind, attrs, is_done, is_cancelled,
                       result_, exception_, callbacks, notified, trajVars,
                       invoked, completed, delivered, observed, timed_out>>

\* add_done_callback that, on a pending object, registers fn and also calls it
add_done_callback_CallAndRegister(t) ==
    \E fn \in Fns :
        /\ Idle(t)
        /\ HasAttr("lock")
        /\ lock = 0
        /\ ~is_done
        /\ callbacks' = Append(callbacks, fn)
        /\ added' = Append(added, fn)
        /\ Start(t, CallRec("add_done_callback", fn, "-", "-"), "do_call")
        /\ UNCHANGED <<modeVars, kind, attrs, lock, is_done, is_cancelled,
                       result_, exception_, notified, trajVars,
                       invoked, completed, delivered, observed, timed_out>>

\* Future.add_done_callback, the region under self.lock
add_done_callback(t) ==
    \E fn \in Fns :
        /\ Idle(t)
        /\ IF ~HasAttr("lock")
           THEN /\ Atomic(t, CallRec("add_done_callback", fn, "-", "-"),
                          Raise("AttributeError"))
                /\ UNCHANGED <<callbacks, added>>
           ELSE /\ lock = 0
                /\ IF is_done
                   THEN IF Registered(fn)
                        THEN /\ Atomic(t, CallRec("add_done_callback", fn, "-", "-"),
                                       Raise("InternalError"))
                             /\ UNCHANGED <<callbacks, added>>
                        ELSE /\ callbacks' = Append(callbacks, fn)
                             /\ added' = Append(added, fn)
                             /\ Atomic(t, CallRec("add_done_callback", fn, "-", "-"),
                                       Return("None"))
                   ELSE /\ Start(t, CallRec("add_done_callback", fn, "-", "-"),
                                 "do_call")
                        /\ added' = Append(added, fn)
                        /\ UNCHANGED callbacks
        /\ UNCHANGED <<modeVars, kind, attrs, lock, is_done, is_cancelled,
                       result_, exception_, notified, trajVars,
                       invoked, completed, delivered, observed, timed_out>>

\* `if do_call: fn(self)`, outside the lock and outside any try
DoCall(t) ==
    /\ pc[t] = "do_call"
    /\ Invoke(call[t].a)
    /\ IF Raises(call[t].a)
       THEN FinishWith(t, [call[t] EXCEPT !.ran = @ + 1], Raise("CallbackError"))
       ELSE FinishWith(t, [call[t] EXCEPT !.ran = @ + 1], Return("None"))
    /\ UNCHANGED <<modeVars, objVars, snap, completed, delivered, added,
                   observed, timed_out>>

RECURSIVE Remove(_, _)
\* list.remove: drops the first occurrence
Remove(seq, x) ==
    IF seq = <<>> THEN <<>>
    ELSE IF Head(seq) = x THEN Tail(seq)
    ELSE <<Head(seq)>> \o Remove(Tail(seq), x)

remove_done_callback(t) ==
    \E fn \in Fns :
        /\ Idle(t)
        /\ IF ~HasAttr("lock")
           THEN /\ Atomic(t, CallRec("remove_done_callback", fn, "-", "-"),
                          Raise("AttributeError"))
                /\ UNCHANGED callbacks
           ELSE /\ lock = 0
                /\ IF Registered(fn)
                   THEN /\ callbacks' = Remove(callbacks, fn)
                        /\ Atomic(t, CallRec("remove_done_callback", fn, "-", "-"),
                                  Return("None"))
                   ELSE /\ Atomic(t, CallRec("remove_done_callback", fn, "-", "-"),
                                  Raise("InternalError"))
                        /\ UNCHANGED callbacks
        /\ UNCHANGED <<modeVars, kind, attrs, lock, is_done, is_cancelled, result_,
                       exception_, notified, trajVars, histVars>>

(***************************************************************************)
(* Completion: set_result, set_cancelled, set_exception, _set_done         *)
(***************************************************************************)
\* `self._result = result`, before _set_done and outside the lock
set_result(t) ==
    \E r \in Results :
        /\ Idle(t)
        /\ Start(t, CallRec("set_result", r, "-", "-"), "set_done")
        /\ result_' = r
        /\ attrs' = attrs \cup {"_result"}
        /\ UNCHANGED <<modeVars, kind, lock, is_done, is_cancelled, exception_,
                       callbacks, notified, trajVars, histVars>>

\* `self._is_cancelled = True`, before _set_done and outside the lock
set_cancelled(t) ==
    /\ Idle(t)
    /\ Start(t, CallRec("set_cancelled", "-", "-", "-"), "set_done")
    /\ is_cancelled' = TRUE
    /\ attrs' = attrs \cup {"_is_cancelled"}
    /\ UNCHANGED <<modeVars, kind, lock, is_done, result_, exception_,
                   callbacks, notified, trajVars, histVars>>

\* `self._exception = exception`, before _set_done and outside the lock
set_exception(t) ==
    \E e \in Exceptions :
        /\ Idle(t)
        /\ Start(t, CallRec("set_exception", e, "-", "-"), "set_done")
        /\ exception_' = e
        /\ attrs' = attrs \cup {"_exception"}
        /\ UNCHANGED <<modeVars, kind, lock, is_done, is_cancelled, result_,
                       callbacks, notified, trajVars, histVars>>

\* what is remembered of a call that passed _set_done
Completion(c) == [op |-> c.op, a |-> c.a, b |-> c.b, c |-> c.c]

\* where a thread goes when _set_done returns: the completion primitive
\* returns None to its caller, which is on_transition when that made the call
AfterSetDone(t) ==
    IF call[t].op = "on_transition"
    THEN Goto(t, "set_prev_state")
    ELSE Finish(t, Return("None"))

\* _set_done without the `if self._is_done: raise InternalError` test
SetDoneLocked_NoGuard(t) ==
    IF ~HasAttr("lock")
    THEN /\ Finish(t, Raise("AttributeError"))
         /\ UNCHANGED <<is_done, notified, snap, completed>>
    ELSE /\ lock = 0
         /\ is_done' = TRUE
         /\ snap' = [snap EXCEPT ![t] = callbacks]
         /\ notified' = notified \cup Waiters
         /\ completed' = Append(completed, Completion(call[t]))
         /\ IF callbacks = <<>>
            THEN AfterSetDone(t)
            ELSE Goto(t, "run_callbacks")

\* Future._set_done, the region under self.lock
SetDoneLocked(t) ==
    IF ~HasAttr("lock")
    THEN /\ Finish(t, Raise("AttributeError"))
         /\ UNCHANGED <<is_done, notified, snap, completed>>
    ELSE /\ lock = 0
         /\ IF is_done
            THEN /\ Finish(t, Raise("InternalError"))
                 /\ UNCHANGED <<is_done, notified, snap, completed>>
            ELSE /\ is_done' = TRUE
                 /\ snap' = [snap EXCEPT ![t] = callbacks]
                 /\ notified' = notified \cup Waiters
                 /\ completed' = Append(completed, Completion(call[t]))
                 /\ IF callbacks = <<>>
                    THEN AfterSetDone(t)
                    ELSE Goto(t, "run_callbacks")

\* `for callback_fn in callbacks: try: callback_fn(self) except Exception`,
\* one iteration, after the lock is released
RunCallback(t) ==
    /\ Invoke(Head(snap[t]))
    /\ snap' = [snap EXCEPT ![t] = Tail(@)]
    /\ IF Tail(snap[t]) = <<>>
       THEN AfterSetDone(t)
       ELSE Goto(t, pc[t])

\* Future._set_done at the position the thread has reached in it.  The
\* callback loop runs over the list copied under the lock; the list is empty
\* whenever self._is_done is false, because add_done_callback appends only
\* when self._is_done is true.
set_done(t) ==
    /\ pc[t] \in {"set_done", "run_callbacks"}
    /\ IF pc[t] = "set_done"
       THEN SetDoneLocked(t) /\ UNCHANGED invoked
       ELSE RunCallback(t) /\ UNCHANGED <<is_done, notified, completed>>
    /\ UNCHANGED <<modeVars, kind, attrs, lock, is_cancelled, result_, exception_,
                   callbacks, trajVars, delivered, added, observed, timed_out>>

(***************************************************************************)
(* TrajectoryFuture                                                        *)
(***************************************************************************)
\* FollowJointTrajectoryClient.execute.  The TrajectoryFuture is built, then
\* the argument FollowJointTrajectoryActionGoal(trajectory=traj_msg) of
\* send_goal is evaluated: the message class has the fields header, goal_id
\* and goal, and its constructor raises AttributeError for a keyword that is
\* not a field.  send_goal is not called, self._handle is not assigned and
\* the future is not returned.
execute(t) ==
    /\ Idle(t)
    /\ kind = "TrajectoryFuture"
    /\ Atomic(t, CallRec("execute", "traj_msg", "-", "-"),
              Raise("AttributeError"))
    /\ UNCHANGED <<modeVars, objVars, histVars>>

\* TrajectoryFuture.on_transition up to the test of self._prev_state;
\* handle.get_state(), get_terminal_state() and get_result().error_code are
\* the inputs
on_transition(t) ==
    \E state \in CommStates, terminal_state \in TerminalStates,
       error_code \in ErrorCodes :
        /\ Idle(t)
        /\ kind = "TrajectoryFuture"
        /\ state # "DONE" => terminal_state = "ABORTED"
        /\ terminal_state # "SUCCEEDED" => error_code = "INVALID_GOAL"
        /\ Start(t, CallRec("on_transition", state, terminal_state, error_code),
                 IF state # prev_state /\ state = "DONE"
                 THEN "on_done" ELSE "set_prev_state")
        /\ observed' = state
        /\ UNCHANGED <<modeVars, objVars, invoked, completed, delivered, added,
                       timed_out>>

\* TrajectoryFuture._on_done up to the first statement of the completion
\* primitive it calls.  The bare name partial_result is not defined in the
\* module, so the branches that build a TrajectoryExecutionFailed raise
\* NameError once the message arguments are evaluated.
OnDone(t) ==
    /\ pc[t] = "on_done"
    /\ IF call[t].b = "SUCCEEDED"
       THEN IF call[t].c = "SUCCESSFUL"
            THEN \* self.set_result(self._traj_executed): the object, no copy
                 /\ result_' = "traj_executed"
                 /\ attrs' = attrs \cup {"_result"}
                 /\ Goto(t, "set_done")
                 /\ UNCHANGED is_cancelled
            ELSE /\ Finish(t, Raise("NameError"))
                 /\ UNCHANGED <<result_, attrs, is_cancelled>>
       ELSE IF call[t].b \notin {"PREEMPTED", "RECALLED"}
       THEN \* self.set_cancelled()
            /\ is_cancelled' = TRUE
            /\ attrs' = attrs \cup {"_is_cancelled"}
            /\ Goto(t, "set_done")
            /\ UNCHANGED result_
       ELSE /\ IF ~HasAttr("_handle") \/ handle = "None"
               THEN Finish(t, Raise("AttributeError"))
               ELSE Finish(t, Raise("NameError"))
            /\ UNCHANGED <<result_, attrs, is_cancelled>>
    /\ UNCHANGED <<modeVars, kind, lock, is_done, exception_, callbacks, notified,
                   trajVars, snap, histVars>>

\* `self._prev_state = state`, the last statement of on_transition
SetPrevState(t) ==
    /\ pc[t] = "set_prev_state"
    /\ prev_state' = call[t].a
    /\ Finish(t, Return("None"))
    /\ UNCHANGED <<modeVars, kind, attrs, lock, is_done, is_cancelled, result_,
                   exception_, callbacks, notified, handle, traj_executed,
                   snap, histVars>>

\* TrajectoryFuture.on_feedback; a waypoint is represented by its
\* time_from_start
on_feedback(t) ==
    \E msg \in Msgs :
        /\ Idle(t)
        /\ kind = "TrajectoryFuture"
        /\ delivered' = Append(delivered, msg.tfs)
        /\ IF ~HasAttr("lock")
           THEN /\ Atomic(t, CallRec("on_feedback", "-", "-", "-"),
                          Raise("AttributeError"))
                /\ UNCHANGED traj_executed
           ELSE /\ lock = 0
                /\ traj_executed' =
                       [stamp |-> IF traj_executed.stamp = 0
                                  THEN msg.stamp - msg.tfs
                                  ELSE traj_executed.stamp,
                        points |-> Append(traj_executed.points, msg.tfs)]
                /\ Atomic(t, CallRec("on_feedback", "-", "-", "-"),
                          Return("None"))
        /\ UNCHANGED <<modeVars, kind, attrs, lock, is_done, is_cancelled, result_,
                       exception_, callbacks, notified, handle, prev_state,
                       invoked, completed, added, observed, timed_out>>

\* TrajectoryFuture.partial_result: a deep copy taken under the lock
partial_result(t) ==
    /\ Idle(t)
    /\ kind = "TrajectoryFuture"
    /\ IF ~HasAttr("lock")
       THEN Atomic(t, CallRec("partial_result", "-", "-", "-"),
                   Raise("AttributeError"))
       ELSE /\ lock = 0
            /\ Atomic(t, CallRec("partial_result", "-", "-", "-"),
                      Return(traj_executed))
    /\ UNCHANGED <<modeVars, objVars, histVars>>

(***************************************************************************)
(* TrajectoryMode                                                          *)
(***************************************************************************)
\* what running() gives in the current state: bool(self._queue)
RunningValue == Return(BoolStr(queue # <<>>))

\* TrajectoryMode.running, under self._lock
running(t) ==
    /\ Idle(t)
    /\ mode_lock = 0
    /\ Atomic(t, CallRec("running", "-", "-", "-"), RunningValue)
    /\ UNCHANGED <<modeVars, objVars, histVars>>

\* TrajectoryMode.execute_ros_trajectory.  The first statement builds
\* JointTrajectoryActionGoal(trajectory=..., path_tolerance=[], ...): these
\* keywords are not fields of the message class (header, goal_id, goal), so
\* its constructor raises AttributeError before `TrajectoryFuture()`, before
\* send_goal, before the append to self._queue and before
\* add_done_callback(remove_from_queue).
execute_ros_trajectory(t) ==
    /\ Idle(t)
    /\ Atomic(t, CallRec("execute_ros_trajectory", "traj_msg", "-", "-"),
              Raise("AttributeError"))
    /\ UNCHANGED <<modeVars, objVars, histVars>>

(***************************************************************************)
(* Specification                                                           *)
(***************************************************************************)
Next ==
    \/ \E t \in Threads :
        \/ done(t) \/ cancelled(t) \/ cancel(t)
        \/ result(t) \/ exception(t)
        \/ Wake(t) \/ ChkCancelled(t) \/ ChkException(t) \/ GetOutcome(t)
        \/ add_done_callback(t) \/ DoCall(t) \/ remove_done_callback(t)
        \/ set_result(t) \/ set_cancelled(t) \/ set_exception(t)
        \/ set_done(t)
        \/ on_transition(t) \/ OnDone(t) \/ SetPrevState(t)
        \/ on_feedback(t) \/ partial_result(t)
        \/ running(t) \/ execute_ros_trajectory(t)
        \/ execute(t)

Spec == Init /\ [][Next]_vars

\* a thread inside a call keeps running: the interpreter schedules every
\* runnable thread, and a timed wait ends when its timeout has run out.  No
\* fairness is assumed for starting calls.
Continue(t) ==
    \/ Wake(t) \/ ChkCancelled(t) \/ ChkException(t) \/ GetOutcome(t)
    \/ DoCall(t) \/ set_done(t) \/ OnDone(t) \/ SetPrevState(t)

FairSpec == Spec /\ \A t \in Threads : WF_vars(Continue(t))

\* the waiting and the completion operations of an object built by
\* Future.__init__, under the same fairness
WaitNext ==
    \E t \in Threads :
        \/ result(t) \/ exception(t)
        \/ Wake(t) \/ ChkCancelled(t) \/ ChkException(t) \/ GetOutcome(t)
        \/ set_result(t) \/ set_cancelled(t) \/ set_exception(t)
        \/ set_done(t)

WaitInit == FutureInit /\ ThreadInit /\ ModeInit

WaitFairSpec ==
    /\ WaitInit
    /\ [][WaitNext]_vars
    /\ \A t \in Threads : WF_vars(Continue(t))

(***************************************************************************)
(* Properties                                                              *)
(***************************************************************************)
CompletionOps == {"set_result", "set_cancelled", "set_exception"}

\* a call of one of the operations in ops has ended in the latest step
Ended(ops) == last.kind # "none" /\ last.call.op \in ops

Raised(e) == last.kind = "raise" /\ last.val = e

Returned(v) == last.kind = "return" /\ last.val = v

\* C1: at most one of set_result / set_cancelled / set_exception passes
\* _set_done; a completion call that returns normally is that one, and every
\* completion call started on an object that is already done ends with
\* InternalError.
C1_SingleCompletion ==
    /\ Len(completed) <= 1
    /\ Ended(CompletionOps) =>
          /\ last.call.sawDone => Raised("InternalError")
          /\ last.kind = "return" =>
                completed = <<Completion(last.call)>>

C1_Witness ==
    /\ Ended({"set_cancelled"})
    /\ last.call.sawDone
    /\ Raised("InternalError")
    /\ Len(completed) = 1
    /\ completed[1].op = "set_result"

\* the parts of the outcome that are set
OutcomesSet ==
    {x \in {"result", "error", "cancelled"} :
        \/ x = "result" /\ HasAttr("_result") /\ result_ # "None"
        \/ x = "error" /\ HasAttr("_exception") /\ exception_ # "None"
        \/ x = "cancelled" /\ HasAttr("_is_cancelled") /\ is_cancelled}

\* what cancelled(), result() and exception() report
Reported == <<CancelledValue, Outcome("result"), Outcome("exception")>>

\* C2: once the object is done exactly one of result, error and cancelled
\* flag is set, and what cancelled(), result() and exception() report never
\* changes afterwards.
C2_TerminalOutcomeFinal ==
    /\ [](is_done => Cardinality(OutcomesSet) = 1)
    /\ [][is_done => Reported' = Reported]_vars

\* C3: done() returns True exactly when one completion call has passed
\* _set_done; the completions are never undone, so it stays True.
C3_DoneIffCompleted ==
    Ended({"done"}) /\ last.kind = "return" =>
        last.val = BoolStr(Len(completed) = 1)

C3_Witness ==
    /\ Ended({"done"})
    /\ Returned("True")
    /\ Len(completed) = 1
    /\ is_cancelled

\* C4: add_done_callback(fn) called on an object that is already done calls
\* fn exactly once before it returns.
C4_CallbackOnDoneFuture ==
    Ended({"add_done_callback"}) /\ last.call.sawDone =>
        last.kind = "return" /\ last.call.ran = 1

\* C5: add_done_callback(fn) called on a pending object does not call fn but
\* registers it, and no callback is invoked while the object is pending.
C5_CallbackDeferredWhilePending ==
    /\ kind = "Future" /\ ~is_done => invoked = <<>>
    /\ kind = "Future" /\ Ended({"add_done_callback"}) /\ ~last.call.sawDone =>
          last.call.ran = 0 /\ Registered(last.call.a)

\* C6: a result() or exception() call without timeout that is waiting on an
\* object that is done eventually ends.
C6_WaiterOfDoneFutureReturns ==
    \A t \in Threads :
        (pc[t] = "wait" /\ call[t].a = "None" /\ is_done) ~> (pc[t] = "idle")

\* C7: a result(timeout) call with a finite timeout on an object built by
\* Future.__init__ ends; it ends with TimeoutError exactly when the object
\* is not done as the wait ends, so it returns no value for a pending object.
C7_TimeoutIffPending ==
    /\ [](kind = "Future" /\ Ended({"result"}) /\ last.call.a = "Finite" =>
             (Raised("TimeoutError") <=> ~is_done))
    /\ \A t \in Threads :
          (kind = "Future" /\ pc[t] = "wait" /\ call[t].op = "result"
              /\ call[t].a = "Finite") ~> (pc[t] = "idle")

C7_Witness ==
    /\ kind = "Future"
    /\ Ended({"result"})
    /\ last.call.a = "Finite"
    /\ Raised("TimeoutError")
    /\ \E t \in Threads : pc[t] = "set_done"

\* what C8 expects of a result() or exception() call on an object completed
\* by the completion call c
Expected(o, c) ==
    IF c.op = "set_cancelled" THEN Raise("CancelledError")
    ELSE IF c.op = "set_exception"
         THEN IF o = "result" THEN Raise(c.a) ELSE Return(c.a)
    ELSE IF o = "result" THEN Return(c.a) ELSE Return("None")

\* C8: on an object completed by one completion call, result() raises
\* CancelledError, raises the stored exception or returns the stored result,
\* and exception() raises CancelledError, returns the stored exception or
\* returns None, according to that call.
C8_OutcomeOfDoneFuture ==
    kind = "Future" /\ Ended({"result", "exception"}) /\ is_done
        /\ Len(completed) = 1 =>
            [kind |-> last.kind, val |-> last.val]
                = Expected(last.call.op, completed[1])

\* an on_transition call that saw DONE with terminal state in ts, not as a
\* repetition of the previous state, has ended
TransitionEnded(ts) ==
    /\ Ended({"on_transition"})
    /\ last.call.a = "DONE"
    /\ ~last.call.dup
    /\ last.call.b \in ts

\* the trajectory a value returned by result() stands for
Deref(v) == IF v = "traj_executed" THEN traj_executed ELSE EmptyTrajectory

\* C9: after on_transition has seen DONE with PREEMPTED or RECALLED,
\* cancelled() is True, result() raises CancelledError, and without feedback
\* the executed trajectory is empty.
C9_PreemptedIsCancelled ==
    TransitionEnded({"PREEMPTED", "RECALLED"}) =>
        /\ CancelledValue = Return("True")
        /\ Outcome("result") = Raise("CancelledError")
        /\ delivered = <<>> => traj_executed.points = <<>>

\* C10: after on_transition has seen DONE with SUCCEEDED and SUCCESSFUL,
\* done() is True, cancelled() is False and result() returns the executed
\* trajectory, which holds the delivered waypoints in order.
C10_SucceededReturnsExecuted ==
    TransitionEnded({"SUCCEEDED"}) /\ last.call.c = "SUCCESSFUL" =>
        /\ DoneValue = Return("True")
        /\ CancelledValue = Return("False")
        /\ Outcome("result") = Return("traj_executed")
        /\ Deref("traj_executed").points = delivered

\* C11: after on_transition has seen DONE with SUCCEEDED and an error code
\* other than SUCCESSFUL, or with a terminal state other than SUCCEEDED,
\* PREEMPTED and RECALLED, the object is done and not cancelled and its
\* stored exception is a TrajectoryExecutionFailed.
C11_FailureStoresExecutionFailed ==
    /\ TransitionEnded(TerminalStates \ {"PREEMPTED", "RECALLED"})
    /\ last.call.b = "SUCCEEDED" => last.call.c # "SUCCESSFUL"
    =>
        /\ DoneValue = Return("True")
        /\ CancelledValue = Return("False")
        /\ Outcome("exception") = Return("TrajectoryExecutionFailed")

\* C12: an on_transition that delivers DONE right after an on_transition
\* that delivered DONE returns without effect: one completion has passed
\* _set_done, no callback has been invoked twice, and no error is raised.
C12_RepeatedDoneIsNoOp ==
    Ended({"on_transition"}) /\ last.call.a = "DONE" /\ last.call.again =>
        /\ last.kind = "return"
        /\ Len(completed) = 1
        /\ \A i, j \in 1..Len(invoked) : invoked[i] = invoked[j] => i = j

\* C13: execute_ros_trajectory returns an execution, and running() is True
\* right after it while that execution is not done; running() is False when
\* no execution is in flight.
C13_RunningAfterDispatch ==
    /\ Ended({"execute_ros_trajectory"}) =>
          last.kind = "return" /\ RunningValue = Return("True")
    /\ Ended({"running"}) /\ queue = <<>> => Returned("False")

\* C14: once execute_ros_trajectory has ended it has returned the execution,
\* and the execution is in self._queue exactly when it is not done.
C14_QueuedIffNotDone ==
    Ended({"execute_ros_trajectory"}) =>
        /\ last.kind = "return"
        /\ last.val \in Range(queue) <=> ~is_done

\* C15: execute dispatches the TrajectoryFuture (it returns with
\* self._handle assigned), and cancel() on a TrajectoryFuture that is not
\* done leaves it pending and returns True, every time it is called, when
\* the object has been dispatched; on an object that was never dispatched it
\* raises InternalError.
C15_CancelReturnsTrueWhilePending ==
    /\ Ended({"execute"}) => last.kind = "return" /\ HasAttr("_handle")
    /\ kind = "TrajectoryFuture" /\ Ended({"cancel"}) /\ ~last.call.sawDone =>
          /\ ~is_done
          /\ IF HasAttr("_handle")
             THEN Returned("True")
             ELSE Raised("InternalError")

\* C16: the executed trajectory changes only while the object is not done
\* and only by an append; while the object is pending it holds the samples
\* delivered to on_feedback, in order.
C16_ExecutedAppendOnlyUntilDone ==
    /\ [][traj_executed' # traj_executed =>
            /\ ~is_done
            /\ \E p \in {m.tfs : m \in Msgs} :
                  traj_executed'.points = Append(traj_executed.points, p)]_vars
    /\ [](kind = "TrajectoryFuture" /\ ~is_done =>
             traj_executed.points = delivered)

\* C17: partial_result() on a pending TrajectoryFuture returns a trajectory
\* whose waypoints are the samples delivered to on_feedback so far, in
\* delivery order, with non-decreasing time offsets.
C17_PartialResultHoldsDelivered ==
    Ended({"partial_result"}) /\ ~is_done =>
        /\ last.kind = "return"
        /\ last.val.points = delivered
        /\ \A i \in 1..(Len(last.val.points) - 1) :
              last.val.points[i] <= last.val.points[i + 1]

\* C18: no call ends with the exception raised by a done-callback.
C18_CallbackExceptionContained ==
    last.kind # "none" => ~Raised("CallbackError")

\* C19: add_done_callback(fn) on a pending object, with fn accepted by an
\* earlier add_done_callback, raises InternalError without calling fn, and
\* fn is not in self._callbacks twice.
C19_DuplicateRegistrationRejected ==
    /\ kind = "Future"
    /\ Ended({"add_done_callback"})
    /\ ~last.call.sawDone
    /\ last.call.again
    =>
        /\ Raised("InternalError")
        /\ last.call.ran = 0
        /\ \A i, j \in 1..Len(callbacks) : callbacks[i] = callbacks[j] => i = j

\* how often x occurs in seq
Count(seq, x) == Cardinality({i \in 1..Len(seq) : seq[i] = x})

\* C20: a callable is invoked at most once for each add_done_callback call
\* that accepted it, whether add_done_callback or _set_done invokes it.
C20_InvokedAtMostOncePerRegistration ==
    \A fn \in Fns : Count(invoked, fn) <= Count(added, fn)

C20_Witness ==
    /\ Ended(CompletionOps)
    /\ last.kind = "return"
    /\ is_done
    /\ added = <<"cb1">>
    /\ invoked = <<"cb1">>

\* the threads that are about to invoke a done-callback: `fn(self)` in
\* add_done_callback, `callback_fn(self)` in _set_done
Invoking == {t \in Threads : pc[t] \in {"do_call", "run_callbacks"}}

\* C21: a thread that invokes a done-callback holds neither self.lock of the
\* future nor self._lock of the queue, so the callback can take either.
C21_NoLockHeldAcrossCallback ==
    \A t \in Invoking : lock # t /\ mode_lock # t

C21_Witness ==
    \E t \in Invoking :
        /\ is_done
        /\ lock \in Threads \ {t}

\* the threads inside on_transition at a statement that reads or writes
\* self._prev_state, self._result or self._is_cancelled
Notifying == {t \in Threads : pc[t] \in {"on_done", "set_prev_state"}}

\* C22: a thread inside on_transition holds self.lock where it touches the
\* previous state and the completion state, and every DONE notification that
\* has ended, alone or overlapping another, has returned with exactly one
\* completion passed through _set_done and without InternalError.
C22_NotificationsUnderLock ==
    /\ \A t \in Notifying : lock = t
    /\ Ended({"on_transition"}) /\ last.call.a = "DONE" =>
          /\ last.kind = "return"
          /\ ~Raised("InternalError")
          /\ Len(completed) = 1

\* C23: after on_transition has seen DONE with SUCCEEDED and SUCCESSFUL,
\* result() returns a trajectory that is a copy, not the object on_feedback
\* appends to, and the trajectory result() stands for never changes once
\* the object is done.
C23_ResultIsCopyAtCompletion ==
    /\ [](TransitionEnded({"SUCCEEDED"}) /\ last.call.c = "SUCCESSFUL" =>
             /\ Outcome("result").kind = "return"
             /\ Outcome("result").val # "traj_executed")
    /\ [][kind = "TrajectoryFuture" /\ is_done =>
             Deref(result_)' = Deref(result_)]_vars

\* the state of the future that its methods report
FutureState ==
    <<attrs, is_done, is_cancelled, result_, exception_, callbacks,
      traj_executed>>

\* C24: the step in which a result() or exception() call ends with
\* TimeoutError leaves the flags, the stored outcome, the callbacks and the
\* executed trajectory as they were; and after such a call, once one
\* completion call has passed _set_done, a result() call started on the
\* done object reports the outcome of that completion when it ends.
C24_TimeoutLeavesFutureUsable ==
    /\ [][last'.kind = "raise" /\ last'.val = "TimeoutError" =>
            FutureState' = FutureState]_vars
    /\ [](/\ kind = "Future"
          /\ timed_out
          /\ Ended({"result"})
          /\ last.call.sawDone
          /\ is_done
          /\ Len(completed) = 1
          => [kind |-> last.kind, val |-> last.val]
                 = Expected("result", completed[1]))
====
